---- MODULE Spec2Model ----
(***************************************************************************)
(* Verification-code-mediated authentication workflow of the finance       *)
(* tracker backend: signup, login, verify-code, resend-code, social-auth.  *)
(* Tables are the committed rows of the relational store; row ids (uuid4   *)
(* in the code) are the positions of the rows in their table.              *)
(***************************************************************************)
EXTENDS Integers, Sequences, FiniteSets

\* ---------------------------------------------------------------- bounds
\* committed transactions in a run of the broad and of the deep specification
MaxDbTime == 3
MaxDeepTime == 7
MaxDeepSessions == 1
MaxEpisodeTime == 5
\* ticks of the application clock
MaxTime == 2
\* overlapping requests, and committed transactions in a run with overlap
MaxInflight == 2
MaxRaceTime == 2
MaxVerifyTime == 6
\* committed transactions in a run with a failing mail transport
MaxLossyTime == 3
\* sessions of one challenge episode in a run about the resend cap
MaxCapSessions == 4

\* commits in a run of the token-issuing routes
MaxTokenTime == 5

\* commits in a run of overlapping resend-code requests
MaxReissueTime == 4

\* ------------------------------------------------------ program constants
MAX_VERIFICATION_ATTEMPTS == 5
MAX_RESENDS == 3
\* settings.VERIFICATION_CODE_EXPIRE_MINUTES, in ticks of the application clock
VERIFICATION_CODE_EXPIRE_MINUTES == 1
\* len(DEFAULT_CATEGORIES)
DEFAULT_CATEGORIES == 12

\* ---------------------------------------------------------- input domains
None == "None"
NoHash == <<>>
Emails == {"a@x.com", "b@y.com"}
Passwords == {"secret1", "secret2"}
\* signup request bodies
SignupRequests ==
  { [email |-> "a@x.com", password |-> "secret1", name |-> "Ann"],
    [email |-> "a@x.com", password |-> "secret2", name |-> None],
    [email |-> "b@y.com", password |-> "secret1", name |-> None] }
LoginRequests == [email : Emails, password : Passwords]
\* social-auth request bodies; ok = the provider accepts the assertion / its
\* claims decode, email and name are the claims it carries
SocialRequests ==
  { [provider |-> "google", ok |-> FALSE, email |-> None, name |-> None],
    [provider |-> "apple", ok |-> TRUE, email |-> None, name |-> "Ann"],
    [provider |-> "google", ok |-> TRUE, email |-> "a@x.com", name |-> "Ann"],
    [provider |-> "apple", ok |-> TRUE, email |-> "b@y.com", name |-> None] }
\* codes a client may submit, and codes generate_verification_code may draw
Codes == {"000000", "123456"}
GenCodes == {"123456"}

VARIABLES
  users,      \* table "user": sequence of rows, id = position
  sessions,   \* table "verification_code": sequence of rows, id = position
  resends,    \* per session: the resend-code calls between its original and it
  compared,   \* per session: the submitted codes compared with its stored code
  reissued,   \* per session: the resend-code calls that succeeded on its handle
  categories, \* table "category": number of rows per user id
  tokens,     \* bearer tokens issued so far: [sub, op, sid]
  outbox,     \* codes handed to send_verification_email: [to, sid]
  now,        \* application clock, datetime.now(timezone.utc)
  dbNow,      \* database clock, func.now(): advances with every transaction
  resp,       \* the last completed request and its response
  inflight    \* per worker slot: the request it is serving, between steps

vars ==
  <<users, sessions, resends, compared, reissued, categories, tokens, outbox, now, dbNow,
    resp, inflight>>

\* session handles a client may present: the issued ones and one never issued
Handles == 1..(Len(sessions) + 1)

\* ------------------------------------------------------------ primitives
hash_password(password) == <<"bcrypt", password>>

\* mutation: every password is accepted
verify_password_any(plain, hashed) == TRUE

verify_password(plain, hashed) == hashed = hash_password(plain)

\* the subject claim of the token minted for user_id
create_access_token(user_id) == user_id

Multiple == -1

\* result.scalar_one_or_none() of select(User).where(User.email == email):
\* 0 for no row, the row's id for one row, MultipleResultsFound otherwise
UserByEmail(email) ==
  LET hits == {i \in 1..Len(users) : users[i].email = email}
  IN  IF hits = {} THEN 0
      ELSE IF Cardinality(hits) = 1 THEN CHOOSE i \in hits : TRUE
      ELSE Multiple

\* result.scalar_one_or_none() of select(VerificationCode).where(id == handle)
SessionById(handle) == IF handle \in 1..Len(sessions) THEN handle ELSE 0

\* a request as the log keeps it: the route, the email or the handle it
\* names, and the secret it submits
Request(op, key, secret) == [op |-> op, key |-> key, secret |-> secret]

HTTPException(req, st, detail) ==
  [req |-> req, status |-> st, detail |-> detail,
   session_id |-> 0, token |-> 0, remaining |-> 0]

\* mutation: a code that was not mailed fails the request
PendingUnlessUndelivered(req, st, sid) ==
  IF \E m \in outbox' : m.sid = sid
  THEN [req |-> req, status |-> st, detail |-> "code sent",
        session_id |-> sid, token |-> 0, remaining |-> 0]
  ELSE HTTPException(req, 500, "SMTPException")

VerificationPendingResponse(req, st, sid) ==
  [req |-> req, status |-> st, detail |-> "code sent",
   session_id |-> sid, token |-> 0, remaining |-> 0]

AuthResponse(req, sub) ==
  [req |-> req, status |-> 200, detail |-> "authenticated",
   session_id |-> 0, token |-> sub, remaining |-> 0]

\* the row create_verification adds and commits
create_verification(user_id, code, purpose) ==
  [user_id |-> user_id, code |-> code, purpose |-> purpose,
   expires_at |-> now + VERIFICATION_CODE_EXPIRE_MINUTES,
   used |-> FALSE, attempts |-> 0, created_at |-> dbNow + 1]

\* send_verification_email(to, code): the outboxes it may leave behind.  The
\* code of session sid leaves for `to`, or no mail transport is configured
\* or the send raises, and then the code is only logged; it never raises
send_verification_email(to, sid) ==
  {outbox \cup {[to |-> to, sid |-> sid]}, outbox}

Idle == [op |-> "idle"]

\* a session whose stored code no submitted code has been compared with
NoneCompared == [match |-> 0, mismatch |-> 0]

Init ==
  /\ users = <<>>
  /\ sessions = <<>>
  /\ resends = <<>>
  /\ compared = <<>>
  /\ reissued = <<>>
  /\ categories = <<>>
  /\ tokens = {}
  /\ outbox = {}
  /\ now = 0
  /\ dbNow = 0
  /\ resp = HTTPException(Request("none", <<>>, <<>>), 0, "none")
  /\ inflight = [w \in 1..MaxInflight |-> Idle]

\* ---------------------------------------------------------------- signup
\* mutation: a row is inserted even when the email has an unverified row
SignupAlwaysInserts(existing, email, password, name) ==
  Append(users, [email |-> email, password_hash |-> hash_password(password),
                 name |-> name, provider |-> None, is_verified |-> FALSE])

\* mutation: the in-place update of an unverified row also activates it
SignupUsersVerifying(existing, email, password, name) ==
  IF existing # 0
  THEN [users EXCEPT ![existing].password_hash = hash_password(password),
                     ![existing].name = name,
                     ![existing].is_verified = TRUE]
  ELSE Append(users, [email |-> email, password_hash |-> hash_password(password),
                      name |-> name, provider |-> None, is_verified |-> FALSE])

\* mutation: the password hash is not stored
SignupUsersNoHash(existing, email, password, name) ==
  IF existing # 0
  THEN [users EXCEPT ![existing].password_hash = NoHash,
                     ![existing].name = name]
  ELSE Append(users, [email |-> email, password_hash |-> NoHash,
                      name |-> name, provider |-> None, is_verified |-> FALSE])

\* the user table after lines 67-81
SignupUsers(existing, email, password, name) ==
  IF existing # 0
  THEN [users EXCEPT ![existing].password_hash = hash_password(password),
                     ![existing].name = name]
  ELSE Append(users, [email |-> email, password_hash |-> hash_password(password),
                      name |-> name, provider |-> None, is_verified |-> FALSE])

\* mutation: a verified row does not stop the signup
ConflictNever(existing) == FALSE

\* existing and existing.is_verified
Conflict(existing) == existing # 0 /\ users[existing].is_verified

\* mutation: a repeated signup marks the earlier sessions of the user used
signup_superseding(email, password, name, code) ==
  LET existing == UserByEmail(email)
      req == Request("signup", <<email>>, <<password>>)
  IN  IF existing = Multiple
      THEN /\ resp' = HTTPException(req, 500, "MultipleResultsFound")
           /\ UNCHANGED <<users, sessions, resends, compared, reissued, categories, tokens, outbox, now, dbNow>>
      ELSE IF Conflict(existing)
      THEN /\ resp' = HTTPException(req, 409, "Email already registered")
           /\ UNCHANGED <<users, sessions, resends, compared, reissued, categories, tokens, outbox, now, dbNow>>
      ELSE LET user == IF existing # 0 THEN existing ELSE Len(users) + 1
           IN  /\ users' = SignupUsers(existing, email, password, name)
               /\ categories' = IF existing # 0 THEN categories
                                ELSE Append(categories, 0)
               /\ sessions' =
                    Append([h \in 1..Len(sessions) |->
                              IF sessions[h].user_id = user
                              THEN [sessions[h] EXCEPT !.used = TRUE]
                              ELSE sessions[h]],
                           create_verification(user, code, "signup"))
               /\ resends' = Append(resends, 0)
               /\ compared' = Append(compared, NoneCompared)
               /\ reissued' = Append(reissued, 0)
               /\ dbNow' = dbNow + 1
               /\ outbox' \in send_verification_email(email, Len(sessions) + 1)
               /\ resp' = VerificationPendingResponse(req, 201, Len(sessions) + 1)
               /\ UNCHANGED <<tokens, now>>

signup(email, password, name, code) ==
  LET existing == UserByEmail(email)
      req == Request("signup", <<email>>, <<password>>)
  IN  IF existing = Multiple
      THEN /\ resp' = HTTPException(req, 500, "MultipleResultsFound")
           /\ UNCHANGED <<users, sessions, resends, compared, reissued, categories, tokens, outbox, now, dbNow>>
      ELSE IF Conflict(existing)
      THEN /\ resp' = HTTPException(req, 409, "Email already registered")
           /\ UNCHANGED <<users, sessions, resends, compared, reissued, categories, tokens, outbox, now, dbNow>>
      ELSE LET user == IF existing # 0 THEN existing ELSE Len(users) + 1
           IN  /\ users' = SignupUsers(existing, email, password, name)
               /\ categories' = IF existing # 0 THEN categories
                                ELSE Append(categories, 0)
               /\ sessions' = Append(sessions, create_verification(user, code, "signup"))
               /\ resends' = Append(resends, 0)
               /\ compared' = Append(compared, NoneCompared)
               /\ reissued' = Append(reissued, 0)
               /\ dbNow' = dbNow + 1
               /\ outbox' \in send_verification_email(email, Len(sessions) + 1)
               /\ resp' = VerificationPendingResponse(req, 201, Len(sessions) + 1)
               /\ UNCHANGED <<tokens, now>>

\* ----------------------------------------------------------------- login
\* mutation: the password is compared before the is_verified flag is looked at
login_password_first(email, password, code) ==
  LET user == UserByEmail(email)
      req == Request("login", <<email>>, <<password>>)
  IN  IF user = Multiple
      THEN /\ resp' = HTTPException(req, 500, "MultipleResultsFound")
           /\ UNCHANGED <<users, sessions, resends, compared, reissued, categories, tokens, outbox, now, dbNow>>
      ELSE IF user = 0 \/ users[user].password_hash = NoHash
      THEN /\ resp' = HTTPException(req, 401, "Invalid credentials")
           /\ UNCHANGED <<users, sessions, resends, compared, reissued, categories, tokens, outbox, now, dbNow>>
      ELSE IF ~verify_password(password, users[user].password_hash)
      THEN /\ resp' = HTTPException(req, 401, "Invalid credentials")
           /\ UNCHANGED <<users, sessions, resends, compared, reissued, categories, tokens, outbox, now, dbNow>>
      ELSE IF ~users[user].is_verified
      THEN /\ resp' = HTTPException(req, 403, "Email not verified")
           /\ UNCHANGED <<users, sessions, resends, compared, reissued, categories, tokens, outbox, now, dbNow>>
      ELSE /\ sessions' = Append(sessions, create_verification(user, code, "login"))
           /\ resends' = Append(resends, 0)
           /\ compared' = Append(compared, NoneCompared)
           /\ reissued' = Append(reissued, 0)
           /\ dbNow' = dbNow + 1
           /\ outbox' \in send_verification_email(email, Len(sessions) + 1)
           /\ resp' = VerificationPendingResponse(req, 200, Len(sessions) + 1)
           /\ UNCHANGED <<users, categories, tokens, now>>

login(email, password, code) ==
  LET user == UserByEmail(email)
      req == Request("login", <<email>>, <<password>>)
  IN  IF user = Multiple
      THEN /\ resp' = HTTPException(req, 500, "MultipleResultsFound")
           /\ UNCHANGED <<users, sessions, resends, compared, reissued, categories, tokens, outbox, now, dbNow>>
      ELSE IF user = 0 \/ users[user].password_hash = NoHash
      THEN /\ resp' = HTTPException(req, 401, "Invalid credentials")
           /\ UNCHANGED <<users, sessions, resends, compared, reissued, categories, tokens, outbox, now, dbNow>>
      ELSE IF ~users[user].is_verified
      THEN /\ resp' = HTTPException(req, 403, "Email not verified")
           /\ UNCHANGED <<users, sessions, resends, compared, reissued, categories, tokens, outbox, now, dbNow>>
      ELSE IF ~verify_password(password, users[user].password_hash)
      THEN /\ resp' = HTTPException(req, 401, "Invalid credentials")
           /\ UNCHANGED <<users, sessions, resends, compared, reissued, categories, tokens, outbox, now, dbNow>>
      ELSE /\ sessions' = Append(sessions, create_verification(user, code, "login"))
           /\ resends' = Append(resends, 0)
           /\ compared' = Append(compared, NoneCompared)
           /\ reissued' = Append(reissued, 0)
           /\ dbNow' = dbNow + 1
           /\ outbox' \in send_verification_email(email, Len(sessions) + 1)
           /\ resp' = VerificationPendingResponse(req, 200, Len(sessions) + 1)
           /\ UNCHANGED <<users, categories, tokens, now>>

\* ----------------------------------------------------------- verify-code
\* mutation: the used flag is not looked at
validate_ignoring_used(record, code, t) ==
  IF record = 0 THEN "invalid"
  ELSE IF sessions[record].expires_at < t THEN "expired"
  ELSE IF sessions[record].attempts >= MAX_VERIFICATION_ATTEMPTS THEN "exhausted"
  ELSE IF sessions[record].code # code THEN "mismatch"
  ELSE "ok"

\* mutation: the cap is compared with > instead of >=
validate_cap_off_by_one(record, code, t) ==
  IF record = 0 \/ sessions[record].used THEN "invalid"
  ELSE IF sessions[record].expires_at < t THEN "expired"
  ELSE IF sessions[record].attempts > MAX_VERIFICATION_ATTEMPTS THEN "exhausted"
  ELSE IF sessions[record].code # code THEN "mismatch"
  ELSE "ok"

\* mutation: the attempt cap is not enforced
validate_uncapped(record, code, t) ==
  IF record = 0 \/ sessions[record].used THEN "invalid"
  ELSE IF sessions[record].expires_at < t THEN "expired"
  ELSE IF sessions[record].code # code THEN "mismatch"
  ELSE "ok"

\* mutation: the expiry is not looked at
validate_never_expires(record, code, t) ==
  IF record = 0 \/ sessions[record].used THEN "invalid"
  ELSE IF sessions[record].attempts >= MAX_VERIFICATION_ATTEMPTS THEN "exhausted"
  ELSE IF sessions[record].code # code THEN "mismatch"
  ELSE "ok"

\* mutation: the attempt cap is tested before the expiry
validate_cap_before_expiry(record, code, t) ==
  IF record = 0 \/ sessions[record].used THEN "invalid"
  ELSE IF sessions[record].attempts >= MAX_VERIFICATION_ATTEMPTS THEN "exhausted"
  ELSE IF sessions[record].expires_at < t THEN "expired"
  ELSE IF sessions[record].code # code THEN "mismatch"
  ELSE "ok"

\* the branch validate_verification_code takes on the row it read
validate_verification_code(record, code, t) ==
  IF record = 0 \/ sessions[record].used THEN "invalid"
  ELSE IF sessions[record].expires_at < t THEN "expired"
  ELSE IF sessions[record].attempts >= MAX_VERIFICATION_ATTEMPTS THEN "exhausted"
  ELSE IF sessions[record].code # code THEN "mismatch"
  ELSE "ok"

\* mutation: the counter is bumped twice
IncrementedTwice(attempts) == attempts + 2

\* record.attempts += 1
Incremented(attempts) == attempts + 1

\* remaining = MAX_VERIFICATION_ATTEMPTS - record.attempts, after the increment
Remaining(attempts) == MAX_VERIFICATION_ATTEMPTS - attempts

\* mutation: verify-code never activates the account
ActivatesNever(record, user) == FALSE

\* record.purpose == "signup" and not user.is_verified
Activates(record, user) ==
  sessions[record].purpose = "signup" /\ ~users[user].is_verified

\* _seed_categories(db, user_id)
seed_categories(user_id) ==
  [categories EXCEPT ![user_id] = @ + DEFAULT_CATEGORIES]

\* mutation: the token is keyed on the session instead of on its user
SubjectIsRecord(record) == create_access_token(record)

\* the subject of the token verify_code mints for the consumed record
VerifySubject(record) == create_access_token(sessions[record].user_id)

verify_code(handle, code) ==
  LET record == SessionById(handle)
      outcome == validate_verification_code(record, code, now)
      req == Request("verify", <<handle>>, <<code>>)
  IN  CASE outcome = "invalid" ->
             /\ resp' = HTTPException(req, 400, "Invalid or expired verification session")
             /\ UNCHANGED <<users, sessions, resends, compared, reissued, categories, tokens, outbox, now, dbNow>>
        [] outcome = "expired" ->
             /\ resp' = HTTPException(req, 400, "Verification code expired")
             /\ UNCHANGED <<users, sessions, resends, compared, reissued, categories, tokens, outbox, now, dbNow>>
        [] outcome = "exhausted" ->
             /\ resp' = HTTPException(req, 429, "Too many failed attempts")
             /\ UNCHANGED <<users, sessions, resends, compared, reissued, categories, tokens, outbox, now, dbNow>>
        [] outcome = "mismatch" ->
             /\ sessions' = [sessions EXCEPT ![record].attempts = Incremented(@)]
             /\ dbNow' = dbNow + 1
             /\ resp' = [HTTPException(req, 400, "Invalid code") EXCEPT
                           !.remaining = Remaining(sessions'[record].attempts)]
             /\ compared' = [compared EXCEPT ![record].mismatch = @ + 1]
             /\ UNCHANGED <<users, resends, reissued, categories, tokens, outbox, now>>
        [] outcome = "ok" ->
             LET user == sessions[record].user_id
             IN  /\ sessions' = [sessions EXCEPT ![record].used = TRUE]
                 /\ dbNow' = dbNow + 1
                 /\ IF Activates(record, user)
                    THEN /\ users' = [users EXCEPT ![user].is_verified = TRUE]
                         /\ categories' = seed_categories(user)
                    ELSE UNCHANGED <<users, categories>>
                 /\ tokens' = tokens \cup
                      {[sub |-> VerifySubject(record), op |-> "verify", sid |-> record]}
                 /\ resp' = AuthResponse(req, VerifySubject(record))
                 /\ compared' = [compared EXCEPT ![record].match = @ + 1]
                 /\ UNCHANGED <<resends, reissued, outbox, now>>

\* ----------------------------------------------------------- resend-code
\* mutation: the sessions are counted whatever their creation time
ResendCountAll(old_record) ==
  Cardinality({i \in 1..Len(sessions) :
                 /\ sessions[i].user_id = sessions[old_record].user_id
                 /\ sessions[i].purpose = sessions[old_record].purpose})

\* len(resend_count_result.scalars().all())
ResendCount(old_record) ==
  Cardinality({i \in 1..Len(sessions) :
                 /\ sessions[i].user_id = sessions[old_record].user_id
                 /\ sessions[i].purpose = sessions[old_record].purpose
                 /\ sessions[i].created_at >= sessions[old_record].created_at})

\* mutation: the old session is not superseded
ResendKeepingOld(old_record, code) ==
  Append(sessions,
         create_verification(sessions[old_record].user_id, code,
                             sessions[old_record].purpose))

\* the verification_code table after lines 173-181
ResendSessions(old_record, code) ==
  Append([sessions EXCEPT ![old_record].used = TRUE],
         create_verification(sessions[old_record].user_id, code,
                             sessions[old_record].purpose))

\* mutation: a used session can still be resent
resend_ignoring_used(handle, code) ==
  LET old_record == SessionById(handle)
      req == Request("resend", <<handle>>, <<>>)
  IN  IF old_record = 0
      THEN /\ resp' = HTTPException(req, 400, "Invalid verification session")
           /\ UNCHANGED <<users, sessions, resends, compared, reissued, categories, tokens, outbox, now, dbNow>>
      ELSE IF ResendCount(old_record) > MAX_RESENDS
      THEN /\ resp' = HTTPException(req, 429, "Maximum resend limit reached")
           /\ UNCHANGED <<users, sessions, resends, compared, reissued, categories, tokens, outbox, now, dbNow>>
      ELSE LET user == sessions[old_record].user_id
           IN  /\ sessions' = ResendSessions(old_record, code)
               /\ resends' = Append(resends, resends[old_record] + 1)
               /\ compared' = Append(compared, NoneCompared)
               /\ reissued' = Append([reissued EXCEPT ![old_record] = @ + 1], 0)
               /\ dbNow' = dbNow + 1
               /\ outbox' \in send_verification_email(users[user].email, Len(sessions) + 1)
               /\ resp' = VerificationPendingResponse(req, 200, Len(sessions) + 1)
               /\ UNCHANGED <<users, categories, tokens, now>>

resend_code(handle, code) ==
  LET old_record == SessionById(handle)
      req == Request("resend", <<handle>>, <<>>)
  IN  IF old_record = 0 \/ sessions[old_record].used
      THEN /\ resp' = HTTPException(req, 400, "Invalid verification session")
           /\ UNCHANGED <<users, sessions, resends, compared, reissued, categories, tokens, outbox, now, dbNow>>
      ELSE IF ResendCount(old_record) > MAX_RESENDS
      THEN /\ resp' = HTTPException(req, 429, "Maximum resend limit reached")
           /\ UNCHANGED <<users, sessions, resends, compared, reissued, categories, tokens, outbox, now, dbNow>>
      ELSE LET user == sessions[old_record].user_id
           IN  /\ sessions' = ResendSessions(old_record, code)
               /\ resends' = Append(resends, resends[old_record] + 1)
               /\ compared' = Append(compared, NoneCompared)
               /\ reissued' = Append([reissued EXCEPT ![old_record] = @ + 1], 0)
               /\ dbNow' = dbNow + 1
               /\ outbox' \in send_verification_email(users[user].email, Len(sessions) + 1)
               /\ resp' = VerificationPendingResponse(req, 200, Len(sessions) + 1)
               /\ UNCHANGED <<users, categories, tokens, now>>

\* ----------------------------------------------------------- social-auth
\* mutation: the row is created with the column default of is_verified
SocialUserUnverified(provider, email, name) ==
  [email |-> email, password_hash |-> NoHash, name |-> name,
   provider |-> provider, is_verified |-> FALSE]

\* User(email=email, name=name, provider=body.provider, is_verified=True)
SocialUser(provider, email, name) ==
  [email |-> email, password_hash |-> NoHash, name |-> name,
   provider |-> provider, is_verified |-> TRUE]

social_auth(provider, ok, claim_email, claim_name) ==
  LET user == UserByEmail(claim_email)
      req == Request("social", <<claim_email>>, <<provider>>)
  IN  IF ~ok
      THEN /\ resp' = HTTPException(req, 401, "Invalid ID token")
           /\ UNCHANGED <<users, sessions, resends, compared, reissued, categories, tokens, outbox, now, dbNow>>
      ELSE IF claim_email = None
      THEN /\ resp' = HTTPException(req, 401, "Could not extract email from token")
           /\ UNCHANGED <<users, sessions, resends, compared, reissued, categories, tokens, outbox, now, dbNow>>
      ELSE IF user = Multiple
      THEN /\ resp' = HTTPException(req, 500, "MultipleResultsFound")
           /\ UNCHANGED <<users, sessions, resends, compared, reissued, categories, tokens, outbox, now, dbNow>>
      ELSE IF user = 0
      THEN /\ users' = Append(users, SocialUser(provider, claim_email, claim_name))
           /\ categories' = Append(categories, DEFAULT_CATEGORIES)
           /\ dbNow' = dbNow + 1
           /\ tokens' = tokens \cup
                {[sub |-> create_access_token(Len(users) + 1), op |-> "social", sid |-> 0]}
           /\ resp' = AuthResponse(req, create_access_token(Len(users) + 1))
           /\ UNCHANGED <<sessions, resends, compared, reissued, outbox, now>>
      ELSE /\ users' = [users EXCEPT ![user].is_verified = TRUE]
           /\ dbNow' = dbNow + 1
           /\ tokens' = tokens \cup
                {[sub |-> create_access_token(user), op |-> "social", sid |-> 0]}
           /\ resp' = AuthResponse(req, create_access_token(user))
           /\ UNCHANGED <<sessions, resends, compared, reissued, categories, outbox, now>>

\* the application clock advances
Tick ==
  /\ now < MaxTime
  /\ now' = now + 1
  /\ UNCHANGED <<users, sessions, resends, compared, reissued, categories, tokens, outbox, dbNow, resp,
                  inflight>>

\* ------------------------------------------------------------ dev/reset-db
\* drop_all, then create_all: every table is emptied.  Tokens already issued
\* and mails already sent are out of the store's reach
reset_database ==
  /\ users' = <<>>
  /\ sessions' = <<>>
  /\ resends' = <<>>
  /\ compared' = <<>>
  /\ reissued' = <<>>
  /\ categories' = <<>>
  /\ dbNow' = dbNow + 1
  /\ resp' = [req |-> Request("reset", <<>>, <<>>), status |-> 200,
              detail |-> "All tables dropped and recreated",
              session_id |-> 0, token |-> 0, remaining |-> 0]
  /\ UNCHANGED <<tokens, outbox, now>>

\* ------------------------------------------- overlapping signup / social
\* Each request runs in its own transaction (READ COMMITTED): it reads the
\* committed rows at its select, and its writes become visible at its
\* commit.  A request is served in two steps, its select and the rest of the
\* handler; what it read stays in its worker slot in between.

\* mutation: the email column carries no unique constraint
NoUniqueConstraint(email) == FALSE

\* the unique constraint on user.email refuses the INSERT (IntegrityError)
UniqueViolation(email) == \E u \in 1..Len(users) : users[u].email = email

FreeSlot(w) ==
  /\ inflight[w] = Idle
  /\ \A v \in 1..(w - 1) : inflight[v] # Idle

\* signup, lines 60-61
signup_select(w, email, password, name) ==
  LET existing == UserByEmail(email)
  IN  /\ FreeSlot(w)
      /\ IF existing = Multiple
         THEN /\ resp' = HTTPException(Request("signup", <<email>>, <<password>>),
                                       500, "MultipleResultsFound")
              /\ UNCHANGED inflight
         ELSE /\ inflight' =
                   [inflight EXCEPT ![w] =
                      [op |-> "signup", email |-> email, password |-> password,
                       name |-> name, existing |-> existing,
                       conflict |-> Conflict(existing)]]
              /\ UNCHANGED resp
      /\ UNCHANGED <<users, sessions, resends, compared, reissued, categories, tokens, outbox, now, dbNow>>

\* signup, lines 62-89, on the row read at the select
signup_write(w, code) ==
  LET q == inflight[w]
      req == Request("signup", <<q.email>>, <<q.password>>)
  IN  /\ q.op = "signup"
      /\ inflight' = [inflight EXCEPT ![w] = Idle]
      /\ IF q.conflict
         THEN /\ resp' = HTTPException(req, 409, "Email already registered")
              /\ UNCHANGED <<users, sessions, resends, compared, reissued, categories, tokens, outbox,
                             now, dbNow>>
         ELSE IF q.existing = 0 /\ UniqueViolation(q.email)
         THEN /\ resp' = HTTPException(req, 500, "IntegrityError")
              /\ UNCHANGED <<users, sessions, resends, compared, reissued, categories, tokens, outbox,
                             now, dbNow>>
         ELSE LET user == IF q.existing # 0 THEN q.existing ELSE Len(users) + 1
              IN  /\ users' = SignupUsers(q.existing, q.email, q.password, q.name)
                  /\ categories' = IF q.existing # 0 THEN categories
                                   ELSE Append(categories, 0)
                  /\ sessions' =
                       Append(sessions, create_verification(user, code, "signup"))
                  /\ resends' = Append(resends, 0)
                  /\ compared' = Append(compared, NoneCompared)
                  /\ reissued' = Append(reissued, 0)
                  /\ dbNow' = dbNow + 1
                  /\ outbox' \in send_verification_email(q.email, Len(sessions) + 1)
                  /\ resp' = VerificationPendingResponse(req, 201, Len(sessions) + 1)
                  /\ UNCHANGED <<tokens, now>>

\* social_auth, lines 195-229
social_select(w, provider, ok, claim_email, claim_name) ==
  LET user == UserByEmail(claim_email)
      req == Request("social", <<claim_email>>, <<provider>>)
  IN  /\ FreeSlot(w)
      /\ IF ~ok
         THEN /\ resp' = HTTPException(req, 401, "Invalid ID token")
              /\ UNCHANGED inflight
         ELSE IF claim_email = None
         THEN /\ resp' = HTTPException(req, 401, "Could not extract email from token")
              /\ UNCHANGED inflight
         ELSE IF user = Multiple
         THEN /\ resp' = HTTPException(req, 500, "MultipleResultsFound")
              /\ UNCHANGED inflight
         ELSE /\ inflight' =
                   [inflight EXCEPT ![w] =
                      [op |-> "social", email |-> claim_email, provider |-> provider,
                       name |-> claim_name, existing |-> user]]
              /\ UNCHANGED resp
      /\ UNCHANGED <<users, sessions, resends, compared, reissued, categories, tokens, outbox, now, dbNow>>

\* social_auth, lines 231-246, on the row read at the select
social_write(w) ==
  LET q == inflight[w]
      req == Request("social", <<q.email>>, <<q.provider>>)
  IN  /\ q.op = "social"
      /\ inflight' = [inflight EXCEPT ![w] = Idle]
      /\ IF q.existing = 0 /\ UniqueViolation(q.email)
         THEN /\ resp' = HTTPException(req, 500, "IntegrityError")
              /\ UNCHANGED <<users, sessions, resends, compared, reissued, categories, tokens, outbox,
                             now, dbNow>>
         ELSE IF q.existing = 0
         THEN /\ users' = Append(users, SocialUser(q.provider, q.email, q.name))
              /\ categories' = Append(categories, DEFAULT_CATEGORIES)
              /\ dbNow' = dbNow + 1
              /\ tokens' = tokens \cup
                   {[sub |-> create_access_token(Len(users) + 1), op |-> "social",
                     sid |-> 0]}
              /\ resp' = AuthResponse(req, create_access_token(Len(users) + 1))
              /\ UNCHANGED <<sessions, resends, compared, reissued, outbox, now>>
         ELSE /\ users' = [users EXCEPT ![q.existing].is_verified = TRUE]
              /\ dbNow' = dbNow + 1
              /\ tokens' = tokens \cup
                   {[sub |-> create_access_token(q.existing), op |-> "social",
                     sid |-> 0]}
              /\ resp' = AuthResponse(req, create_access_token(q.existing))
              /\ UNCHANGED <<sessions, resends, compared, reissued, categories, outbox, now>>

\* ------------------------------------------------- overlapping verify-code
\* verify_code is served in three steps: the select of the session and the
\* checks made on the row read; the write validate_verification_code
\* commits, followed by the select of the owner; the activation, the token
\* and the response.  The row read stays in the worker slot in between.

\* mutation: the UPDATE is refused when the row was consumed since it was read
StaleIfUsed(record) == sessions[record].used

\* the mapper of VerificationCode has no version counter: the UPDATE by
\* primary key is never refused (no StaleDataError)
StaleDataError(record) == FALSE

\* verify_code, services/auth.py lines 57-79
verify_select(w, handle, code) ==
  LET record == SessionById(handle)
      outcome == validate_verification_code(record, code, now)
      req == Request("verify", <<handle>>, <<code>>)
  IN  /\ FreeSlot(w)
      /\ CASE outcome = "invalid" ->
                /\ resp' = HTTPException(req, 400, "Invalid or expired verification session")
                /\ UNCHANGED <<inflight, compared>>
           [] outcome = "expired" ->
                /\ resp' = HTTPException(req, 400, "Verification code expired")
                /\ UNCHANGED <<inflight, compared>>
           [] outcome = "exhausted" ->
                /\ resp' = HTTPException(req, 429, "Too many failed attempts")
                /\ UNCHANGED <<inflight, compared>>
           [] outcome = "mismatch" ->
                /\ inflight' =
                     [inflight EXCEPT ![w] =
                        [op |-> "verify", record |-> record, code |-> code,
                         outcome |-> outcome,
                         attempts |-> sessions[record].attempts]]
                /\ compared' = [compared EXCEPT ![record].mismatch = @ + 1]
                /\ UNCHANGED resp
           [] outcome = "ok" ->
                /\ inflight' =
                     [inflight EXCEPT ![w] =
                        [op |-> "verify", record |-> record, code |-> code,
                         outcome |-> outcome,
                         attempts |-> sessions[record].attempts]]
                /\ compared' = [compared EXCEPT ![record].match = @ + 1]
                /\ UNCHANGED resp
      /\ UNCHANGED <<users, sessions, resends, reissued, categories, tokens, outbox, now, dbNow>>

\* services/auth.py lines 80-89 on the row read at the select, then
\* routers/auth.py lines 126-133
verify_validate(w) ==
  LET q == inflight[w]
      req == Request("verify", <<q.record>>, <<q.code>>)
  IN  /\ q.op = "verify"
      /\ IF StaleDataError(q.record)
         THEN /\ resp' = HTTPException(req, 500, "StaleDataError")
              /\ inflight' = [inflight EXCEPT ![w] = Idle]
              /\ UNCHANGED <<users, sessions, resends, compared, reissued, categories, tokens, outbox,
                             now, dbNow>>
         ELSE IF q.outcome = "mismatch"
         THEN /\ sessions' =
                   [sessions EXCEPT ![q.record].attempts = Incremented(q.attempts)]
              /\ dbNow' = dbNow + 1
              /\ resp' = [HTTPException(req, 400, "Invalid code") EXCEPT
                            !.remaining = Remaining(Incremented(q.attempts))]
              /\ inflight' = [inflight EXCEPT ![w] = Idle]
              /\ UNCHANGED <<users, resends, compared, reissued, categories, tokens, outbox, now>>
         ELSE LET user == sessions[q.record].user_id
              IN  /\ sessions' = [sessions EXCEPT ![q.record].used = TRUE]
                  /\ dbNow' = dbNow + 1
                  /\ inflight' =
                       [inflight EXCEPT ![w] =
                          [op |-> "activate", record |-> q.record, code |-> q.code,
                           activates |-> Activates(q.record, user)]]
                  /\ UNCHANGED <<users, resends, compared, reissued, categories, tokens, outbox,
                                 now, resp>>

\* routers/auth.py lines 133-140 on the owner read after the validation
verify_finish(w) ==
  LET q == inflight[w]
      req == Request("verify", <<q.record>>, <<q.code>>)
      user == sessions[q.record].user_id
  IN  /\ q.op = "activate"
      /\ IF q.activates
         THEN /\ users' = [users EXCEPT ![user].is_verified = TRUE]
              /\ categories' = seed_categories(user)
              /\ dbNow' = dbNow + 1
         ELSE UNCHANGED <<users, categories, dbNow>>
      /\ tokens' = tokens \cup
           {[sub |-> VerifySubject(q.record), op |-> "verify", sid |-> q.record]}
      /\ resp' = AuthResponse(req, VerifySubject(q.record))
      /\ inflight' = [inflight EXCEPT ![w] = Idle]
      /\ UNCHANGED <<sessions, resends, compared, reissued, outbox, now>>

\* resend_code, lines 145-171: the row of the handle and the count are read
resend_select(w, handle) ==
  LET old_record == SessionById(handle)
      req == Request("resend", <<handle>>, <<>>)
  IN  /\ FreeSlot(w)
      /\ IF old_record = 0 \/ sessions[old_record].used
         THEN /\ resp' = HTTPException(req, 400, "Invalid verification session")
              /\ UNCHANGED inflight
         ELSE IF ResendCount(old_record) > MAX_RESENDS
         THEN /\ resp' = HTTPException(req, 429, "Maximum resend limit reached")
              /\ UNCHANGED inflight
         ELSE /\ inflight' =
                   [inflight EXCEPT ![w] = [op |-> "resend", record |-> old_record]]
              /\ UNCHANGED resp
      /\ UNCHANGED <<users, sessions, resends, compared, reissued, categories, tokens, outbox, now, dbNow>>

\* resend_code, lines 173-187, on the row read at the select: the UPDATE of
\* used waits for the row lock of an overlapping call and then proceeds
resend_write(w, code) ==
  LET q == inflight[w]
      old_record == q.record
      req == Request("resend", <<old_record>>, <<>>)
      user == sessions[old_record].user_id
  IN  /\ q.op = "resend"
      /\ inflight' = [inflight EXCEPT ![w] = Idle]
      /\ sessions' = ResendSessions(old_record, code)
      /\ resends' = Append(resends, resends[old_record] + 1)
      /\ compared' = Append(compared, NoneCompared)
      /\ reissued' = Append([reissued EXCEPT ![old_record] = @ + 1], 0)
      /\ dbNow' = dbNow + 1
      /\ outbox' \in send_verification_email(users[user].email, Len(sessions) + 1)
      /\ resp' = VerificationPendingResponse(req, 200, Len(sessions) + 1)
      /\ UNCHANGED <<users, categories, tokens, now>>

\* --------------------------------------------------------- specifications
\* the mail transport delivers: a step that adds a session mails its code
Delivered == Len(sessions') > Len(sessions) => outbox' # outbox

\* requests served one after another, each handler run to completion; the
\* database clock stays within `limit` and the verification_code table
\* within `rows` rows; with `lossy` the mail transport may fail
NextOf(signups, logins, socials, limit, rows, lossy) ==
  \/ \E b \in signups, c \in GenCodes :
        /\ signup(b.email, b.password, b.name, c)
        /\ dbNow' <= limit /\ Len(sessions') <= rows /\ UNCHANGED inflight
        /\ lossy \/ Delivered
  \/ \E b \in logins, c \in GenCodes :
        /\ login(b.email, b.password, c)
        /\ dbNow' <= limit /\ Len(sessions') <= rows /\ UNCHANGED inflight
        /\ lossy \/ Delivered
  \/ \E h \in Handles, c \in Codes :
        verify_code(h, c) /\ dbNow' <= limit /\ UNCHANGED inflight
  \/ \E h \in Handles, c \in GenCodes :
        /\ resend_code(h, c)
        /\ dbNow' <= limit /\ Len(sessions') <= rows /\ UNCHANGED inflight
        /\ lossy \/ Delivered
  \/ \E b \in socials :
        /\ social_auth(b.provider, b.ok, b.email, b.name)
        /\ dbNow' <= limit /\ UNCHANGED inflight
  \/ Tick

\* broad: every request body, short runs
Next ==
  NextOf(SignupRequests, LoginRequests, SocialRequests, MaxDbTime, MaxDbTime,
         FALSE)

Spec == Init /\ [][Next]_vars

\* deep: the requests of one email, long runs over few sessions
DeepNext ==
  NextOf({b \in SignupRequests : b.email = "a@x.com" /\ b.name = "Ann"},
         {b \in LoginRequests : b.email = "a@x.com"},
         {b \in SocialRequests : b.email # "b@y.com"},
         MaxDeepTime, MaxDeepSessions, FALSE)

DeepSpec == Init /\ [][DeepNext]_vars

\* episode: the requests of one email, runs of many sessions
EpisodeNext ==
  NextOf({b \in SignupRequests : b.email = "a@x.com" /\ b.name = "Ann"},
         {b \in LoginRequests : b.email = "a@x.com"},
         {b \in SocialRequests : b.email # "b@y.com"},
         MaxEpisodeTime, MaxEpisodeTime, FALSE)

EpisodeSpec == Init /\ [][EpisodeNext]_vars

\* every route of the application: the authentication workflow of one email
\* and the dev route
AdminNext ==
  \/ NextOf({b \in SignupRequests : b.email = "a@x.com" /\ b.name = "Ann"},
            {b \in LoginRequests : b.email = "a@x.com"},
            {b \in SocialRequests : b.email # "b@y.com"},
            MaxDbTime, MaxDbTime, TRUE)
  \/ reset_database /\ dbNow' <= MaxDbTime /\ UNCHANGED inflight

AdminSpec == Init /\ [][AdminNext]_vars

\* failing mail transport: the requests of one email, any code may be lost
LossyNext ==
  NextOf({b \in SignupRequests : b.email = "a@x.com" /\ b.name = "Ann"},
         {b \in LoginRequests : b.email = "a@x.com"},
         {b \in SocialRequests : b.email # "b@y.com"},
         MaxLossyTime, MaxDeepSessions + 1, TRUE)

LossySpec == Init /\ [][LossyNext]_vars

\* resend cap: one signup body repeated, runs of MaxCapSessions sessions
CapNext ==
  NextOf({b \in SignupRequests : b.email = "a@x.com" /\ b.name = "Ann"},
         {b \in LoginRequests : b.email = "a@x.com" /\ b.password = "secret1"},
         {b \in SocialRequests : ~b.ok},
         MaxCapSessions, MaxCapSessions, FALSE)

CapSpec == Init /\ [][CapNext]_vars

\* token issue: the requests of one email, long enough for a signup
\* session, a login session and a social sign-in of the same user
TokenNext ==
  NextOf({b \in SignupRequests : b.email = "a@x.com" /\ b.name = "Ann"},
         {b \in LoginRequests : b.email = "a@x.com"},
         {b \in SocialRequests : b.email # "b@y.com"},
         MaxTokenTime, MaxDeepSessions + 1, FALSE)

TokenSpec == Init /\ [][TokenNext]_vars

\* overlap: signup and social-auth requests interleave step by step, with
\* verify-code requests served between their steps
RaceNext ==
  \/ \E w \in 1..MaxInflight, b \in SignupRequests :
        signup_select(w, b.email, b.password, b.name)
  \/ \E w \in 1..MaxInflight, c \in GenCodes :
        signup_write(w, c) /\ dbNow' <= MaxRaceTime /\ Delivered
  \/ \E w \in 1..MaxInflight, b \in SocialRequests :
        social_select(w, b.provider, b.ok, b.email, b.name)
  \/ \E w \in 1..MaxInflight : social_write(w) /\ dbNow' <= MaxRaceTime
  \/ \E h \in Handles, c \in Codes :
        verify_code(h, c) /\ dbNow' <= MaxRaceTime /\ UNCHANGED inflight

RaceSpec == Init /\ [][RaceNext]_vars

\* overlap of verify-code: the verify-code requests for the sessions of one
\* signup interleave step by step
VerifyRaceNext ==
  \/ \E b \in {r \in SignupRequests : r.email = "a@x.com" /\ r.name = "Ann"},
        c \in GenCodes :
        /\ signup(b.email, b.password, b.name, c)
        /\ dbNow' <= MaxVerifyTime /\ Len(sessions') <= MaxDeepSessions
        /\ UNCHANGED inflight /\ Delivered
  \/ \E w \in 1..MaxInflight, h \in Handles, c \in Codes : verify_select(w, h, c)
  \/ \E w \in 1..MaxInflight : verify_validate(w) /\ dbNow' <= MaxVerifyTime
  \/ \E w \in 1..MaxInflight : verify_finish(w) /\ dbNow' <= MaxVerifyTime

VerifyRaceSpec == Init /\ [][VerifyRaceNext]_vars

\* overlap of resend-code: the resend-code requests for the sessions of one
\* signup interleave step by step
ResendRaceNext ==
  \/ \E b \in {r \in SignupRequests : r.email = "a@x.com" /\ r.name = "Ann"},
        c \in GenCodes :
        /\ signup(b.email, b.password, b.name, c)
        /\ dbNow' <= MaxReissueTime /\ Len(sessions') <= MaxDeepSessions
        /\ UNCHANGED inflight /\ Delivered
  \/ \E w \in 1..MaxInflight, h \in Handles : resend_select(w, h)
  \/ \E w \in 1..MaxInflight, c \in GenCodes :
        resend_write(w, c) /\ dbNow' <= MaxReissueTime /\ Delivered

ResendRaceSpec == Init /\ [][ResendRaceNext]_vars

\* ================================================================ claims
IsSession(h) == h \in 1..Len(sessions)

Expired(h) == sessions[h].expires_at < now

\* an existing session that is unused, unexpired and under the attempt cap
Verifiable(h) ==
  /\ IsSession(h)
  /\ ~sessions[h].used
  /\ ~Expired(h)
  /\ sessions[h].attempts < MAX_VERIFICATION_ATTEMPTS

\* no step removes a session or resets its used flag
UsedIsStable ==
  \A h \in 1..Len(sessions) :
    sessions[h].used => (h <= Len(sessions') /\ sessions'[h].used)

LastWas(op) == resp.req.op = op

\* C1: verify-code with the stored code on an unused, unexpired session under
\* the attempt cap succeeds and turns used from false to true; used then stays
\* true, and verify-code on a used session fails with 400 and issues no
\* token, whatever code is submitted.
C1_ConsumedOnce ==
  [][ /\ UsedIsStable
      /\ \A h \in Handles, c \in Codes :
           verify_code(h, c) =>
             /\ (Verifiable(h) /\ c = sessions[h].code) =>
                  /\ resp'.status = 200 /\ resp'.token # 0
                  /\ ~sessions[h].used /\ sessions'[h].used
             /\ (IsSession(h) /\ sessions[h].used) =>
                  /\ resp'.status = 400 /\ resp'.token = 0
                  /\ tokens' = tokens /\ sessions' = sessions ]_vars

\* a consumed session was presented again, with its own code, and was refused
C1_Witness ==
  /\ LastWas("verify") /\ resp.status = 400
  /\ \E h \in 1..Len(sessions) :
       /\ resp.req.key = <<h>> /\ resp.req.secret = <<sessions[h].code>>
       /\ sessions[h].used
       /\ \E t \in tokens : t.op = "verify" /\ t.sid = h

\* C2: verify-code on an unused, unexpired session whose attempt counter is at
\* the cap fails with 429 even with the stored code; the session, its counter
\* and the set of issued tokens stay as they are.
C2_ExhaustedRejected ==
  [][ \A h \in Handles, c \in Codes :
        ( /\ verify_code(h, c)
          /\ IsSession(h) /\ ~sessions[h].used /\ ~Expired(h)
          /\ sessions[h].attempts = MAX_VERIFICATION_ATTEMPTS ) =>
            /\ resp'.status = 429 /\ resp'.token = 0
            /\ sessions' = sessions /\ tokens' = tokens /\ users' = users ]_vars

\* an exhausted session was presented with its own code and answered 429
C2_Witness ==
  /\ LastWas("verify") /\ resp.status = 429
  /\ \E h \in 1..Len(sessions) :
       /\ resp.req.key = <<h>> /\ resp.req.secret = <<sessions[h].code>>
       /\ ~sessions[h].used /\ ~Expired(h)
       /\ sessions[h].attempts = MAX_VERIFICATION_ATTEMPTS

\* C3: in a chain of resend-code calls, each on the most recently issued
\* handle, the fourth call fails with 429: no session is more than
\* MAX_RESENDS resends away from the original of its episode.
C3_EpisodeCap ==
  \A i \in 1..Len(resends) : resends[i] <= MAX_RESENDS

\* C4: verify-code with a non-matching code on a verifiable session with
\* n < 5 attempts sets the counter to n + 1, leaves used false, fails with 400
\* and reports 5 - (n + 1) remaining attempts; if n + 1 < 5 the session is
\* still verifiable, and verify-code with the matching code on a verifiable
\* session succeeds.
C4_MismatchCounts ==
  [][ \A h \in Handles, c \in Codes :
        (verify_code(h, c) /\ Verifiable(h)) =>
          IF c # sessions[h].code
          THEN /\ sessions'[h].attempts = sessions[h].attempts + 1
               /\ ~sessions'[h].used
               /\ resp'.status = 400 /\ resp'.token = 0
               /\ resp'.remaining =
                    MAX_VERIFICATION_ATTEMPTS - (sessions[h].attempts + 1)
               /\ (sessions[h].attempts + 1 < MAX_VERIFICATION_ATTEMPTS
                     => Verifiable(h)')
          ELSE resp'.status = 200 /\ sessions'[h].used ]_vars

\* four mismatches on a session, then its code was accepted
C4_Witness ==
  /\ LastWas("verify") /\ resp.status = 200
  /\ \E h \in 1..Len(sessions) :
       /\ resp.req.key = <<h>>
       /\ sessions[h].attempts = MAX_VERIFICATION_ATTEMPTS - 1
       /\ sessions[h].used

Superseded(h) ==
  /\ IsSession(h)
  /\ sessions[h].used
  /\ ~\E t \in tokens : t.op = "verify" /\ t.sid = h

\* C6: a successful resend-code(old) turns old.used to true, keeps old's code
\* and every other session, and adds exactly one session with a new id, old's
\* user and purpose, used false and attempts 0; a session superseded this way
\* stays used, and verify-code on it fails with 400 whatever the code.
C6_ResendSupersedes ==
  [][ /\ UsedIsStable
      /\ \A h \in Handles, c \in GenCodes :
           (resend_code(h, c) /\ resp'.status = 200) =>
             LET new == Len(sessions) + 1
             IN  /\ IsSession(h) /\ ~sessions[h].used
                 /\ sessions'[h] = [sessions[h] EXCEPT !.used = TRUE]
                 /\ Len(sessions') = new /\ resp'.session_id = new
                 /\ sessions'[new].user_id = sessions[h].user_id
                 /\ sessions'[new].purpose = sessions[h].purpose
                 /\ ~sessions'[new].used /\ sessions'[new].attempts = 0
                 /\ \A i \in 1..Len(sessions) : i # h => sessions'[i] = sessions[i]
      /\ \A h \in Handles, c \in Codes :
           (verify_code(h, c) /\ Superseded(h)) =>
             /\ resp'.status = 400 /\ resp'.token = 0
             /\ tokens' = tokens /\ sessions' = sessions ]_vars

\* a superseded session was presented with its own code and was refused
C6_Witness ==
  /\ LastWas("verify") /\ resp.status = 400
  /\ \E h \in 1..Len(sessions) :
       /\ resp.req.key = <<h>> /\ resp.req.secret = <<sessions[h].code>>
       /\ Superseded(h)
       /\ \E j \in 1..Len(sessions) :
            /\ j > h /\ resends[j] = resends[h] + 1
            /\ sessions[j].user_id = sessions[h].user_id

\* C7: every token issued by verify-code names a used session and has that
\* session's user as subject; a verify-code step that returns a token turns
\* a session from unused to used and mints the token for its user; signup,
\* login and resend-code return no token and issue none.
C7_TokensFollowVerification ==
  /\ [](\A t \in tokens :
          t.op = "verify" =>
            /\ IsSession(t.sid) /\ sessions[t.sid].used
            /\ t.sub = sessions[t.sid].user_id
            /\ t.sub \in 1..Len(users))
  /\ [][ /\ \A h \in Handles, c \in Codes :
              (verify_code(h, c) /\ resp'.token # 0) =>
                /\ IsSession(h) /\ ~sessions[h].used /\ sessions'[h].used
                /\ c = sessions[h].code
                /\ resp'.token = sessions[h].user_id
                /\ tokens' = tokens \cup
                     {[sub |-> sessions[h].user_id, op |-> "verify", sid |-> h]}
         /\ resp'.req.op \in {"signup", "login", "resend"} =>
              (resp'.token = 0 /\ tokens' = tokens)
         /\ tokens' # tokens => resp'.req.op \in {"verify", "social"} ]_vars

\* a token was returned for the owner of a session whose id is not the
\* owner's id
C7_Witness ==
  /\ LastWas("verify") /\ resp.status = 200
  /\ \E h \in 1..Len(sessions) :
       /\ resp.req.key = <<h>>
       /\ resp.token = sessions[h].user_id
       /\ sessions[h].user_id # h
       /\ [sub |-> sessions[h].user_id, op |-> "verify", sid |-> h] \in tokens

\* the rows of the user table with this email
RowsOf(email) == {u \in 1..Len(users) : users[u].email = email}

\* C8: signup with the email of an unverified user adds no user row and moves
\* none; that row gets the submitted password credential and name and stays
\* unverified, every other row is untouched, and exactly one session is
\* added: a signup-purpose session of that user.
C8_SignupReusesUnverified ==
  [][ \A b \in SignupRequests, c \in GenCodes :
        ( /\ signup(b.email, b.password, b.name, c)
          /\ \E u \in RowsOf(b.email) : ~users[u].is_verified ) =>
            LET new == Len(sessions) + 1
            IN  /\ Len(users') = Len(users)
                /\ \A u \in 1..Len(users) :
                     IF users[u].email = b.email
                     THEN users'[u] =
                            [users[u] EXCEPT
                               !.password_hash = hash_password(b.password),
                               !.name = b.name]
                     ELSE users'[u] = users[u]
                /\ \A u \in RowsOf(b.email) : ~users'[u].is_verified
                /\ resp'.status = 201 /\ resp'.session_id = new
                /\ Len(sessions') = new
                /\ sessions'[new].user_id \in RowsOf(b.email)
                /\ sessions'[new].purpose = "signup"
                /\ \A i \in 1..Len(sessions) : sessions'[i] = sessions[i] ]_vars

\* a second signup for a still unverified email replaced its credentials
C8_Witness ==
  /\ LastWas("signup") /\ resp.status = 201
  /\ \E u \in 1..Len(users) :
       /\ resp.req.key = <<users[u].email>>
       /\ ~users[u].is_verified
       /\ users[u].password_hash = hash_password("secret2")
       /\ \E i \in 1..Len(sessions) :
            /\ i < resp.session_id
            /\ sessions[i].user_id = u
       /\ sessions[resp.session_id].user_id = u

\* C9: signup with the email of a verified user fails with 409 and changes
\* no user, creates no session and dispatches no code.
C9_SignupConflict ==
  [][ \A b \in SignupRequests, c \in GenCodes :
        ( /\ signup(b.email, b.password, b.name, c)
          /\ \E u \in RowsOf(b.email) : users[u].is_verified ) =>
            /\ resp'.status = 409
            /\ UNCHANGED <<users, sessions, categories, tokens, outbox>> ]_vars

\* a signup for a verified email was answered 409
C9_Witness ==
  /\ LastWas("signup") /\ resp.status = 409
  /\ \E u \in 1..Len(users) :
       resp.req.key = <<users[u].email>> /\ users[u].is_verified

\* C10: no two rows of the user table carry the same email, however signup
\* and social-auth requests for one email overlap.
C10_EmailUnique ==
  \A u, v \in 1..Len(users) : users[u].email = users[v].email => u = v

\* two overlapping requests both read "no such user"; the first inserted the
\* row, the second was refused by the unique constraint
C10_Witness ==
  /\ resp.status = 500 /\ resp.detail = "IntegrityError"
  /\ \E u \in 1..Len(users) : resp.req.key = <<users[u].email>>

\* C11: login for the email of an unverified user fails with 403 whether the
\* submitted password matches or not, and creates no session and changes
\* no state.
C11_LoginUnverifiedForbidden ==
  [][ \A b \in LoginRequests, c \in GenCodes :
        ( /\ login(b.email, b.password, c)
          /\ \E u \in RowsOf(b.email) : ~users[u].is_verified ) =>
            /\ resp'.status = 403 /\ resp'.session_id = 0
            /\ UNCHANGED <<users, sessions, categories, tokens, outbox>> ]_vars

\* an unverified user logged in with the password of the account and got 403
C11_Witness ==
  /\ LastWas("login") /\ resp.status = 403
  /\ \E u \in 1..Len(users) :
       /\ resp.req.key = <<users[u].email>>
       /\ ~users[u].is_verified
       /\ \E p \in Passwords :
            resp.req.secret = <<p>> /\ verify_password(p, users[u].password_hash)

\* C12: login fails with 401 when no user has the email, when the user has
\* no password credential, or when the user is verified and the password
\* does not match, and then nothing changes; login with the matching
\* password of a verified user adds exactly one login-purpose session of
\* that user and issues no token.
C12_LoginOutcomes ==
  [][ \A b \in LoginRequests, c \in GenCodes :
        login(b.email, b.password, c) =>
          LET rows == RowsOf(b.email)
              new == Len(sessions) + 1
              Refused == /\ resp'.status = 401 /\ resp'.session_id = 0
                         /\ UNCHANGED <<users, sessions, categories, tokens, outbox>>
          IN  /\ rows = {} => Refused
              /\ \A u \in rows :
                   /\ users[u].password_hash = NoHash => Refused
                   /\ ( /\ users[u].is_verified
                        /\ users[u].password_hash # NoHash
                        /\ users[u].password_hash # hash_password(b.password) )
                        => Refused
                   /\ ( /\ users[u].is_verified
                        /\ users[u].password_hash = hash_password(b.password) ) =>
                          /\ resp'.status = 200 /\ resp'.session_id = new
                          /\ resp'.token = 0 /\ tokens' = tokens
                          /\ Len(sessions') = new
                          /\ sessions'[new].user_id = u
                          /\ sessions'[new].purpose = "login"
                          /\ ~sessions'[new].used /\ sessions'[new].attempts = 0
                          /\ \A i \in 1..Len(sessions) : sessions'[i] = sessions[i]
                          /\ UNCHANGED <<users, categories>> ]_vars

\* a verified user who had logged in before was refused for a wrong password
C12_Witness ==
  /\ LastWas("login") /\ resp.status = 401
  /\ \E u \in 1..Len(users) :
       /\ resp.req.key = <<users[u].email>>
       /\ users[u].is_verified
       /\ users[u].password_hash # NoHash
       /\ \E p \in Passwords :
            resp.req.secret = <<p>> /\ ~verify_password(p, users[u].password_hash)
       /\ \E i \in 1..Len(sessions) :
            sessions[i].user_id = u /\ sessions[i].purpose = "login"

\* C13: is_verified never goes from true to false; it goes from false to
\* true only in a verify-code call that succeeds on a signup-purpose session
\* of that user or in a social-auth call that resolves to that user's email;
\* login, resend-code, a failed verify-code and verify-code on a
\* login-purpose session leave every user as it is.
C13_VerifiedFlips ==
  [][ /\ \A u \in 1..Len(users) :
           /\ u <= Len(users')
           /\ users[u].is_verified => users'[u].is_verified
           /\ (~users[u].is_verified /\ users'[u].is_verified) =>
                \/ /\ resp'.req.op = "verify" /\ resp'.status = 200
                   /\ \E h \in 1..Len(sessions) :
                        /\ resp'.req.key = <<h>>
                        /\ sessions[h].purpose = "signup"
                        /\ sessions[h].user_id = u
                        /\ ~sessions[h].used /\ sessions'[h].used
                \/ /\ resp'.req.op = "social" /\ resp'.status = 200
                   /\ resp'.req.key = <<users[u].email>>
      /\ resp'.req.op \in {"login", "resend"} => users' = users
      /\ ( /\ resp'.req.op = "verify"
           /\ \/ resp'.status # 200
              \/ \E h \in 1..Len(sessions) :
                   resp'.req.key = <<h>> /\ sessions[h].purpose = "login" )
           => users' = users ]_vars

\* a user was activated by verify-code on the signup session of that user
C13_Witness ==
  /\ LastWas("verify") /\ resp.status = 200
  /\ \E h \in 1..Len(sessions) :
       /\ resp.req.key = <<h>>
       /\ sessions[h].purpose = "signup" /\ sessions[h].used
       /\ users[sessions[h].user_id].is_verified
       /\ users[sessions[h].user_id].provider = None
       /\ ~\E t \in tokens : t.op = "social"

\* the step leaves session h in place with its code, owner, purpose and
\* expiry, and never resets its used flag
SessionKept(h) ==
  /\ h <= Len(sessions')
  /\ sessions[h].used => sessions'[h].used
  /\ sessions'[h].code = sessions[h].code
  /\ sessions'[h].user_id = sessions[h].user_id
  /\ sessions'[h].purpose = sessions[h].purpose
  /\ sessions'[h].expires_at = sessions[h].expires_at
  /\ sessions'[h].created_at = sessions[h].created_at

\* C14: no step removes a session, resets a used flag, or changes the code,
\* owner, purpose or expiry of a session; used changes only in a successful
\* verify-code on that session or in a successful resend-code of it, and
\* attempts only in a verify-code that mismatches on it.
C14_SessionFrame ==
  [][ \A h \in 1..Len(sessions) :
        /\ SessionKept(h)
        /\ sessions'[h].used # sessions[h].used =>
             /\ resp'.req.key = <<h>> /\ resp'.status = 200
             /\ resp'.req.op \in {"verify", "resend"}
        /\ sessions'[h].attempts # sessions[h].attempts =>
             /\ resp'.req.key = <<h>> /\ resp'.req.op = "verify"
             /\ resp'.status = 400 /\ resp'.detail = "Invalid code"
             /\ resp'.req.secret # <<sessions[h].code>> ]_vars

\* C15: verify-code on a handle that names no session, a used session or a
\* session past its expiry fails with 400 even with the stored code; in
\* these cases and when the attempt counter is at the cap, no session and no
\* user changes, no categories are seeded and no token is issued.
C15_RejectedUntouched ==
  [][ \A h \in Handles, c \in Codes :
        verify_code(h, c) =>
          /\ (~IsSession(h) \/ sessions[h].used \/ Expired(h)) =>
               /\ resp'.status = 400 /\ resp'.token = 0
               /\ UNCHANGED <<users, sessions, categories, tokens>>
          /\ (IsSession(h) /\ sessions[h].attempts >= MAX_VERIFICATION_ATTEMPTS) =>
               /\ resp'.status \in {400, 429} /\ resp'.token = 0
               /\ UNCHANGED <<users, sessions, categories, tokens>> ]_vars

\* a session past its expiry, with attempts left, was presented with its own
\* code and refused; it is still unused and its owner still unverified
C15_Witness ==
  /\ LastWas("verify") /\ resp.status = 400
  /\ resp.detail = "Verification code expired"
  /\ \E h \in 1..Len(sessions) :
       /\ resp.req.key = <<h>> /\ resp.req.secret = <<sessions[h].code>>
       /\ Expired(h) /\ ~sessions[h].used
       /\ sessions[h].attempts \in 1..(MAX_VERIFICATION_ATTEMPTS - 1)
       /\ ~users[sessions[h].user_id].is_verified

\* C16: resend-code with a handle that names no session, or a session that
\* is used (consumed by verify-code or superseded by an earlier resend-code),
\* fails with 400, adds no session, mails nothing and changes no state.
C16_ResendRefused ==
  [][ \A h \in Handles, c \in GenCodes :
        (resend_code(h, c) /\ (~IsSession(h) \/ sessions[h].used)) =>
          /\ resp'.status = 400 /\ resp'.session_id = 0
          /\ resp'.detail = "Invalid verification session"
          /\ UNCHANGED <<users, sessions, categories, tokens, outbox>> ]_vars

\* a session superseded by a resend-code was presented to resend-code again
C16_Witness ==
  /\ LastWas("resend") /\ resp.status = 400
  /\ \E h \in 1..Len(sessions) :
       /\ resp.req.key = <<h>>
       /\ Superseded(h)
       /\ \E j \in 1..Len(sessions) : j > h /\ resends[j] = resends[h] + 1

\* C17: social-auth with an assertion that resolves to an email no user has
\* adds exactly one user, with that email, is_verified true, the provider
\* tag and no password credential, gives that user the default categories
\* once, adds no session, mails nothing, and returns a token whose subject
\* is the new user.
C17_SocialCreates ==
  [][ \A b \in SocialRequests :
        ( /\ social_auth(b.provider, b.ok, b.email, b.name)
          /\ b.ok /\ b.email # None /\ RowsOf(b.email) = {} ) =>
            LET new == Len(users) + 1
            IN  /\ Len(users') = new
                /\ users'[new] =
                     [email |-> b.email, password_hash |-> NoHash,
                      name |-> b.name, provider |-> b.provider,
                      is_verified |-> TRUE]
                /\ \A u \in 1..Len(users) :
                     users'[u] = users[u] /\ categories'[u] = categories[u]
                /\ Len(categories') = new
                /\ categories'[new] = DEFAULT_CATEGORIES
                /\ UNCHANGED <<sessions, outbox>>
                /\ resp'.status = 200 /\ resp'.session_id = 0
                /\ resp'.token = new
                /\ tokens' = tokens \cup
                     {[sub |-> new, op |-> "social", sid |-> 0]} ]_vars

\* a second user was created by social-auth: verified, tagged, without a
\* password and without a session, holding the default categories
C17_Witness ==
  /\ LastWas("social") /\ resp.status = 200
  /\ \E u \in 2..Len(users) :
       /\ resp.req.key = <<users[u].email>> /\ resp.token = u
       /\ users[u].is_verified /\ users[u].password_hash = NoHash
       /\ users[u].provider = "apple"
       /\ categories[u] = DEFAULT_CATEGORIES
       /\ ~\E i \in 1..Len(sessions) : sessions[i].user_id = u
       /\ [sub |-> u, op |-> "social", sid |-> 0] \in tokens

\* C18: a verify-code call that read a session as unused and matched its
\* code succeeds even when an overlapping call has consumed the session in
\* the meantime: its write goes through, it returns a token for the
\* session's owner, and the session is used afterwards; so two overlapping
\* calls with the matching code can both succeed.
C18_BothSucceed ==
  /\ [](\A t \in tokens :
          t.op = "verify" =>
            sessions[t.sid].used /\ t.sub = sessions[t.sid].user_id)
  /\ [][ \A w \in 1..MaxInflight :
           /\ (verify_validate(w) /\ inflight[w].outcome = "ok") =>
                /\ sessions'[inflight[w].record].used
                /\ inflight'[w].op = "activate"
           /\ verify_finish(w) =>
                /\ sessions'[inflight[w].record].used
                /\ resp'.status = 200
                /\ resp'.req.key = <<inflight[w].record>>
                /\ resp'.token = sessions[inflight[w].record].user_id ]_vars

\* two calls matched the code of one session, each on a row read as unused,
\* and both have returned their token
C18_Witness ==
  /\ LastWas("verify") /\ resp.status = 200
  /\ \A w \in 1..MaxInflight : inflight[w] = Idle
  /\ \E h \in 1..Len(sessions) :
       /\ resp.req.key = <<h>> /\ resp.token = sessions[h].user_id
       /\ compared[h].match = 2
       /\ sessions[h].used
       /\ [sub |-> sessions[h].user_id, op |-> "verify", sid |-> h] \in tokens

\* C19: however verify-code calls on one session overlap, at most
\* MAX_VERIFICATION_ATTEMPTS + 1 non-matching codes are compared with the
\* session's stored code.
C19_GuessesBounded ==
  \A h \in 1..Len(compared) :
    compared[h].mismatch <= MAX_VERIFICATION_ATTEMPTS + 1

\* the code of session h was never handed to the mail transport
Undelivered(h) == ~\E m \in outbox : m.sid = h

\* the step added one session, unused, unexpired, with no attempts made and
\* holding code c, and answered with its handle
PendingIssued(st, c) ==
  \E new \in {Len(sessions) + 1} :
      /\ resp'.status = st /\ resp'.session_id = new
      /\ Len(sessions') = new
      /\ sessions'[new].code = c
      /\ Verifiable(new)'

\* C20: when the dispatch of the code fails in signup, login or resend-code,
\* the request still answers with the pending handle, the session it created
\* is stored, and verify-code with that session's code succeeds.
C20_DispatchFailureTolerated ==
  [][ /\ \A b \in SignupRequests, c \in GenCodes :
           ( /\ signup(b.email, b.password, b.name, c)
             /\ outbox' = outbox
             /\ \A u \in RowsOf(b.email) : ~users[u].is_verified )
             => PendingIssued(201, c)
      /\ \A b \in LoginRequests, c \in GenCodes :
           ( /\ login(b.email, b.password, c)
             /\ outbox' = outbox
             /\ \E u \in RowsOf(b.email) :
                  /\ users[u].is_verified
                  /\ users[u].password_hash = hash_password(b.password) )
             => PendingIssued(200, c)
      /\ \A h \in Handles, c \in GenCodes :
           ( /\ resend_code(h, c)
             /\ outbox' = outbox
             /\ IsSession(h) /\ ~sessions[h].used
             /\ ResendCount(h) <= MAX_RESENDS )
             => PendingIssued(200, c)
      /\ \A h \in Handles, c \in Codes :
           ( /\ verify_code(h, c)
             /\ Verifiable(h) /\ Undelivered(h) /\ c = sessions[h].code )
             => resp'.status = 200 /\ resp'.token = sessions[h].user_id ]_vars

\* no code was ever mailed: not the one of the signup, not the one of the
\* resend-code that followed; verify-code accepted the resent code
C20_Witness ==
  /\ LastWas("verify") /\ resp.status = 200
  /\ outbox = {}
  /\ \E h \in 1..Len(sessions) :
       /\ resp.req.key = <<h>> /\ resp.req.secret = <<sessions[h].code>>
       /\ resends[h] = 1 /\ sessions[h].used
       /\ Undelivered(h)
       /\ [sub |-> sessions[h].user_id, op |-> "verify", sid |-> h] \in tokens

\* C21: in every reachable state every unverified user has a password
\* credential and no provider tag, and every user with a provider tag is
\* verified.
C21_UserShapes ==
  \A u \in 1..Len(users) :
    /\ ~users[u].is_verified =>
         users[u].password_hash # NoHash /\ users[u].provider = None
    /\ users[u].provider # None => users[u].is_verified

\* an unverified password account next to a provider account
C21_Witness ==
  \E u, v \in 1..Len(users) :
    /\ ~users[u].is_verified /\ users[u].password_hash # NoHash
    /\ users[v].provider # None /\ users[v].is_verified
    /\ users[v].password_hash = NoHash

\* the sessions of h's owner and purpose created at or after h, h included
SameEpisodeSince(h) ==
  {i \in 1..Len(sessions) :
     /\ sessions[i].user_id = sessions[h].user_id
     /\ sessions[i].purpose = sessions[h].purpose
     /\ sessions[i].created_at >= sessions[h].created_at}

\* C22: resend-code on an existing unused session s fails with 429 exactly
\* when more than MAX_RESENDS sessions of s's owner and purpose were created at
\* or after s (s counted); when it fails this way s stays unused and no
\* session is added.
C22_ResendCapCounts ==
  [][ \A h \in Handles, c \in GenCodes :
        (resend_code(h, c) /\ IsSession(h) /\ ~sessions[h].used) =>
          /\ resp'.status = 429 <=>
               Cardinality(SameEpisodeSince(h)) > MAX_RESENDS
          /\ resp'.status = 429 =>
               /\ sessions' = sessions /\ ~sessions'[h].used
               /\ UNCHANGED <<users, categories, tokens, outbox>>
          /\ resp'.status # 429 =>
               resp'.status = 200 /\ Len(sessions') = Len(sessions) + 1 ]_vars

\* the oldest of four pending sessions of one signup was presented to
\* resend-code and refused with 429
C22_Witness ==
  /\ LastWas("resend") /\ resp.status = 429
  /\ \E h \in 1..Len(sessions) :
       /\ resp.req.key = <<h>>
       /\ ~sessions[h].used
       /\ Cardinality(SameEpisodeSince(h)) = MAX_RESENDS + 1

\* C23: verify-code rejects in a fixed order: absent or used, then expired,
\* then attempts at the cap, then mismatch.  A used session answers 400
\* "invalid" whatever its expiry and attempts, an unused expired session
\* answers 400 "expired" even at the attempt cap, an unused unexpired
\* session at the cap answers 429, and the attempt counter of an expired or
\* exhausted session is never incremented.
C23_RejectionOrder ==
  [][ \A h \in Handles, c \in Codes :
        verify_code(h, c) =>
          /\ (~IsSession(h) \/ sessions[h].used) =>
               /\ resp'.status = 400
               /\ resp'.detail = "Invalid or expired verification session"
          /\ (IsSession(h) /\ ~sessions[h].used /\ Expired(h)) =>
               resp'.status = 400 /\ resp'.detail = "Verification code expired"
          /\ ( /\ IsSession(h) /\ ~sessions[h].used /\ ~Expired(h)
               /\ sessions[h].attempts >= MAX_VERIFICATION_ATTEMPTS ) =>
               resp'.status = 429
          /\ (Verifiable(h) /\ c # sessions[h].code) =>
               resp'.status = 400 /\ resp'.detail = "Invalid code"
          /\ ( /\ IsSession(h)
               /\ \/ Expired(h)
                  \/ sessions[h].attempts >= MAX_VERIFICATION_ATTEMPTS ) =>
               sessions'[h].attempts = sessions[h].attempts ]_vars

\* a session that is both past its expiry and at the attempt cap was
\* presented with a wrong code and answered 400 "expired"
C23_Witness ==
  /\ LastWas("verify") /\ resp.status = 400
  /\ resp.detail = "Verification code expired"
  /\ \E h \in 1..Len(sessions) :
       /\ resp.req.key = <<h>> /\ resp.req.secret # <<sessions[h].code>>
       /\ ~sessions[h].used /\ Expired(h)
       /\ sessions[h].attempts = MAX_VERIFICATION_ATTEMPTS

\* C24: in every reachable state every verified user has the default
\* categories: no user is verified without the default categories having
\* been created for that user.
C24_VerifiedSeeded ==
  \A u \in 1..Len(users) :
    users[u].is_verified => categories[u] >= DEFAULT_CATEGORIES

\* C25: the default categories are seeded at most once per user, however
\* verify-code calls on the signup sessions of that user overlap.
C25_SeededOnce ==
  \A u \in 1..Len(categories) : categories[u] <= DEFAULT_CATEGORIES

\* C26: in every reachable state every user a bearer token was issued for, by
\* verify-code or by social-auth, is verified.
C26_TokenHoldersVerified ==
  \A t \in tokens :
    /\ t.sub \in 1..Len(users)
    /\ users[t.sub].is_verified

\* tokens were issued by verify-code on a signup session, by verify-code on a
\* login session and by social-auth
C26_Witness ==
  /\ \E t \in tokens :
       /\ t.op = "verify" /\ sessions[t.sid].purpose = "signup"
  /\ \E t \in tokens :
       /\ t.op = "verify" /\ sessions[t.sid].purpose = "login"
  /\ \E t \in tokens : t.op = "social"


\* C27: signup and login leave every existing session unchanged: a repeated
\* signup for an unverified email, or a repeated login, marks no earlier
\* session used, and each earlier session that was verifiable with its code
\* still is.
C27_EarlierSessionsKept ==
  [][ (resp'.req.op \in {"signup", "login"} /\ now' = now) =>
        \A h \in 1..Len(sessions) :
          /\ h <= Len(sessions')
          /\ sessions'[h] = sessions[h]
          /\ validate_verification_code(h, sessions[h].code, now) = "ok" =>
               (validate_verification_code(h, sessions[h].code, now) = "ok")' ]_vars

\* after a repeated signup of the same email the earlier session was verified
\* with its own code while the later one is still pending
C27_Witness ==
  /\ LastWas("verify") /\ resp.status = 200
  /\ \E h, j \in 1..Len(sessions) :
       /\ h < j
       /\ resp.req.key = <<h>>
       /\ sessions[h].user_id = sessions[j].user_id
       /\ sessions[h].purpose = "signup" /\ sessions[j].purpose = "signup"
       /\ resends[j] = 0
       /\ sessions[h].used /\ ~sessions[j].used
       /\ compared[h].match = 1


\* C28: each session is superseded by at most one resend-code call: of the
\* overlapping resend-code calls with one handle at most one succeeds and
\* creates a successor session.
C28_SupersededOnce ==
  \A h \in 1..Len(reissued) : reissued[h] <= 1
====
